---------------------------- MODULE Spec2Model ----------------------------
(***************************************************************************)
(* A model of openidredis.RedisStore (src/openidredis/__init__.py): the    *)
(* OpenID association store and nonce guard kept in a Redis key space.     *)
(*                                                                         *)
(* Python strings are sequences of text pieces.  A piece is one character  *)
(* ("a", ":", "-"), or a piece standing for a whole run of characters that *)
(* the code only ever copies: the key prefix "oid_redis", and the digest   *)
(* "<sha1 ...>" that _safe64 makes of a string (27 characters out of       *)
(* A-Z a-z 0-9 '_' '.', one piece here, a different piece per string).     *)
(* Time is counted in whole seconds.                                       *)
(***************************************************************************)
EXTENDS Integers, Sequences, FiniteSets, TLC

VARIABLES
    now,      \* time.time(), in seconds
    SKEW,     \* openid.store.nonce.SKEW, a module attribute the tests reassign
    store,    \* the Redis key space: key -> [val, exp, by]
    last,     \* the call that returned last: its arguments and its outcome
    pc,       \* per concurrent caller: where it stands in its call
    frame     \* per concurrent caller: the locals of its call

vars == <<now, SKEW, store, last, pc, frame>>

---------------------------------------------------------------------------
(* Bounds of the model. *)

MaxTime == 2

MaxSkew == 2

MaxStamp == 1

NumCallers == 2

---------------------------------------------------------------------------
(* Python values. *)

\* The None a redis client returns for a missing key, and the default handle.
None == <<"<None>">>

\* Python truthiness of a str-or-None value: None and '' are false.
Truthy(v) == v # None /\ v # <<>>

Abs(n) == IF n < 0 THEN -n ELSE n

RECURSIVE Join(_)
\* The characters of a string run together, as one piece.
Join(s) == IF s = <<>> THEN "" ELSE s[1] \o Join(Tail(s))

\* s[i:] and s[:i] with Python's 0-based positions.
From(s, i) == SubSeq(s, i + 1, Len(s))

Upto(s, i) == SubSeq(s, 1, i)

StartsWith(s, p) == Len(p) <= Len(s) /\ SubSeq(s, 1, Len(p)) = p

\* str.find: the 0-based position of the first occurrence of sub, else -1.
Find(s, sub) ==
    LET hits == {i \in 0..(Len(s) - Len(sub)) : SubSeq(s, i + 1, i + Len(sub)) = sub}
    IN  IF hits = {} THEN -1 ELSE CHOOSE i \in hits : \A j \in hits : i <= j

\* str.split(sep, 1): a list of one string (no sep) or of two.
Split1(s, sep) ==
    LET i == Find(s, sep)
    IN  IF i = -1 THEN <<s>> ELSE <<Upto(s, i), From(s, i + Len(sep))>>

DecDigits == <<"0", "1", "2", "3", "4", "5", "6", "7", "8", "9">>

HexDigits == DecDigits \o <<"a", "b", "c", "d", "e", "f">>

HexDigitsUpper == DecDigits \o <<"A", "B", "C", "D", "E", "F">>

RECURSIVE Digits(_, _, _)
\* The digits of n >= 0 in the given base.
Digits(n, base, table) ==
    IF n < base THEN <<table[n + 1]>>
    ELSE Digits(n \div base, base, table) \o <<table[(n % base) + 1]>>

RECURSIVE ZeroPad(_, _)
ZeroPad(s, width) == IF Len(s) >= width THEN s ELSE ZeroPad(<<"0">> \o s, width)

\* '%08x' % n: the sign counts in the width of 8.
Hex08(n) ==
    IF n < 0 THEN <<"-">> \o ZeroPad(Digits(-n, 16, HexDigits), 7)
    ELSE ZeroPad(Digits(n, 16, HexDigits), 8)

\* '%s' % n for an int.
Str(n) ==
    IF n < 0 THEN <<"-">> \o Digits(-n, 10, DecDigits) ELSE Digits(n, 10, DecDigits)

DigitValue(c) == CHOOSE d \in 0..9 : DecDigits[d + 1] = c

IsDigit(c) == \E d \in 0..9 : DecDigits[d + 1] = c

RECURSIVE NatOf(_)
NatOf(s) == IF s = <<>> THEN 0 ELSE 10 * NatOf(Upto(s, Len(s) - 1)) + DigitValue(s[Len(s)])

\* Whether int(s) returns: an optional sign and then digits only.  int(None)
\* and int of any other text raise.
IntParses(s) ==
    LET body == IF s # <<>> /\ s[1] \in {"-", "+"} THEN Tail(s) ELSE s
    IN  s # None /\ body # <<>> /\ \A i \in 1..Len(body) : IsDigit(body[i])

IntOf(s) == IF s[1] = "-" THEN -NatOf(Tail(s)) ELSE IF s[1] = "+" THEN NatOf(Tail(s)) ELSE NatOf(s)

---------------------------------------------------------------------------
(* Key naming. *)

Letters ==
    {"a", "b", "c", "d", "e", "f", "g", "h", "i", "j", "k", "l", "m",
     "n", "o", "p", "q", "r", "s", "t", "u", "v", "w", "x", "y", "z",
     "A", "B", "C", "D", "E", "F", "G", "H", "I", "J", "K", "L", "M",
     "N", "O", "P", "Q", "R", "S", "T", "U", "V", "W", "X", "Y", "Z"}

\* _filename_allowed = string.ascii_letters + string.digits + '.'
isFilenameSafe(c) == c \in Letters \/ IsDigit(c) \/ c = "."

\* ord(c) of the unsafe characters the model's strings hold.
Ord(c) ==
    CASE c = ":" -> 58
      [] c = "/" -> 47
      [] c = "-" -> 45
      [] c = "_" -> 95
      [] c = "+" -> 43
      [] c = "=" -> 61

\* _safe64(s): the SHA-1 digest of s in base 64 with '+' -> '_', '/' -> '.'
\* and '=' dropped; one piece, and a different piece for a different s.
safe64(s) == <<"<sha1 " \o Join(s) \o ">">>

RECURSIVE filenameEscape(_)
\* _filenameEscape(s): every character outside the safe set becomes _XX.
filenameEscape(s) ==
    IF s = <<>> THEN <<>>
    ELSE (IF isFilenameSafe(s[1]) THEN <<s[1]>>
          ELSE <<"_">> \o ZeroPad(Digits(Ord(s[1]), 16, HexDigitsUpper), 2))
         \o filenameEscape(Tail(s))

\* RedisStore.key_prefix, the default of __init__.
key_prefix == <<"oid_redis">>

Dash == <<"-">>

SchemeSep == <<":", "/", "/">>

\* server_url.find('://') == -1
BadServerURL(server_url) == Find(server_url, SchemeSep) = -1

\* The key of getAssociationFilename for a server_url that holds '://';
\* a false handle ('' or None) gives the empty handle hash.
getAssociationFilename(server_url, handle) ==
    LET parts       == Split1(server_url, SchemeSep)
        proto       == parts[1]
        rest        == parts[2]
        domain      == filenameEscape(Split1(rest, <<"/">>)[1])
        url_hash    == safe64(server_url)
        handle_hash == IF Truthy(handle) THEN safe64(handle) ELSE <<>>
    IN  key_prefix \o Dash \o proto \o Dash \o domain \o Dash \o url_hash
            \o Dash \o handle_hash

\* Whether useNonce's proto, rest = server_url.split('://', 1) raises: a
\* non-empty server_url without '://' unpacks one value into two names.
NonceURLRaises(server_url) == server_url # <<>> /\ BadServerURL(server_url)

NonceMarker == <<"-", "n", "o", "n", "c", "e", "-">>

\* NonceKey with the '%08x' of the timestamp left out of the key.
NonceKeyNoStamp(server_url, timestamp, salt) ==
    LET parts  == IF server_url # <<>> THEN Split1(server_url, SchemeSep)
                  ELSE <<<<>>, <<>>>>
        domain == filenameEscape(Split1(parts[2], <<"/">>)[1])
    IN  key_prefix \o NonceMarker \o Dash \o parts[1] \o Dash \o domain \o Dash
            \o safe64(server_url) \o Dash \o safe64(salt)

\* The key useNonce builds, for a server_url that is empty or holds '://'.
NonceKey(server_url, timestamp, salt) ==
    LET parts     == IF server_url # <<>> THEN Split1(server_url, SchemeSep)
                     ELSE <<<<>>, <<>>>>
        proto     == parts[1]
        rest      == parts[2]
        domain    == filenameEscape(Split1(rest, <<"/">>)[1])
        url_hash  == safe64(server_url)
        salt_hash == safe64(salt)
    IN  key_prefix \o NonceMarker \o Hex08(timestamp) \o Dash \o proto \o Dash
            \o domain \o Dash \o url_hash \o Dash \o salt_hash


---------------------------------------------------------------------------
(* The Redis key space.  A key maps to its value, to its deadline (exp:    *)
(* empty for a key with no time-to-live, else the second at which Redis    *)
(* drops it), and to `by`, which remembers the call that wrote the value   *)
(* (the program keeps no such thing; the properties read it).              *)

EmptyStore == [k \in {} |-> 0]

Without(s, k) == [x \in DOMAIN s \ {k} |-> s[x]]

\* GET key: the value, or None.
redis_get(s, k) == IF k \in DOMAIN s THEN s[k].val ELSE None

\* SET key value: writes the value and discards any time-to-live of the key.
redis_set(s, k, v, by) ==
    [x \in DOMAIN s \cup {k} |-> IF x = k THEN [val |-> v, exp |-> {}, by |-> by] ELSE s[x]]

\* GETSET key value is GET followed by SET, as one command: the old value is
\* the reply, and like SET it discards the key's time-to-live.
redis_getset(s, k, v, by) == redis_set(s, k, v, by)

\* DEL key: the reply is the number of keys removed.
redis_delete(s, k) == Without(s, k)

\* EXPIRE key seconds at time t: nothing for a missing key, deletes the key
\* at once for seconds <= 0, else sets the deadline.
redis_expire(s, k, seconds, t) ==
    IF k \notin DOMAIN s THEN s
    ELSE IF seconds <= 0 THEN Without(s, k)
    ELSE [s EXCEPT ![k].exp = {t + seconds}]

\* KEYS prefix*: the keys that start with prefix (a pattern whose only
\* special character is the trailing '*'), in no particular order.
redis_keys(s, prefix) == {k \in DOMAIN s : StartsWith(k, prefix)}

RECURSIVE Orders(_)
\* The orders in which Redis may list a set of keys.
Orders(S) ==
    IF S = {} THEN {<<>>}
    ELSE UNION {{<<k>> \o o : o \in Orders(S \ {k})} : k \in S}

RECURSIVE OneOrder(_)
\* One of those orders.
OneOrder(S) ==
    IF S = {} THEN <<>>
    ELSE LET k == CHOOSE x \in S : TRUE IN <<k>> \o OneOrder(S \ {k})

\* MGET keys: the values in the order of the keys, None for a missing key.
redis_mget(s, keys) == [i \in 1..Len(keys) |-> redis_get(s, keys[i])]

\* The key space at time t: every key whose deadline has come is gone.
Unexpired(s, t) ==
    [k \in {x \in DOMAIN s : \A d \in s[x].exp : d > t} |-> s[k]]

---------------------------------------------------------------------------
(* openid.association.Association: handle, secret, issued, lifetime (the   *)
(* assoc_type is always 'HMAC-SHA1' here), and its key-value text form.    *)

\* base 64 of a secret, character by character.
toBase64(s) == [i \in 1..Len(s) |-> "=" \o s[i]]

SecretChars == {"s", "t"}

fromBase64(s) == [i \in 1..Len(s) |-> CHOOSE c \in SecretChars : "=" \o c = s[i]]

AssocFields == <<"version:", "handle:", "secret:", "issued:", "lifetime:", "assoc_type:">>

\* association.serialize()
serialize(a) ==
    <<"version:", "2", "\n", "handle:">> \o a.handle
        \o <<"\n", "secret:">> \o toBase64(a.secret)
        \o <<"\n", "issued:">> \o Str(a.issued)
        \o <<"\n", "lifetime:">> \o Str(a.lifetime)
        \o <<"\n", "assoc_type:", "HMAC-SHA1", "\n">>

RECURSIVE SplitLines(_)
\* The lines of a text that ends every line with a newline.
SplitLines(s) ==
    IF s = <<>> THEN <<>>
    ELSE LET parts == Split1(s, <<"\n">>)
         IN  IF Len(parts) = 1 THEN <<s>> ELSE <<parts[1]>> \o SplitLines(parts[2])

\* Whether Association.deserialize(text) returns; it raises for None and for
\* a text that is not the six fields in order.
DeserializesText(text) ==
    /\ text # None
    /\ LET ls == SplitLines(text)
       IN  /\ Len(ls) = 6
           /\ \A i \in 1..6 : ls[i] # <<>> /\ ls[i][1] = AssocFields[i]
           /\ ls[1] = <<"version:", "2">>
           /\ IntParses(Tail(ls[4]))
           /\ IntParses(Tail(ls[5]))

\* Association.deserialize(text)
deserializeText(text) ==
    LET ls == SplitLines(text)
    IN  [handle   |-> Tail(ls[2]),
         secret   |-> fromBase64(Tail(ls[3])),
         issued   |-> IntOf(Tail(ls[4])),
         lifetime |-> IntOf(Tail(ls[5]))]

\* What stands for "no association" where a record is needed.
NoAssociation == [handle |-> None, secret |-> None, issued |-> 0, lifetime |-> 0]

Expiry(a) == a.issued + a.lifetime

RECURSIVE InsertByIssued(_, _)
\* Insert a after the entries of the sorted list whose issued is <= a.issued.
InsertByIssued(sorted, a) ==
    IF sorted = <<>> THEN <<a>>
    ELSE IF sorted[Len(sorted)].issued <= a.issued THEN Append(sorted, a)
    ELSE Append(InsertByIssued(Upto(sorted, Len(sorted) - 1), a), sorted[Len(sorted)])

RECURSIVE SortByIssued(_)
\* associations.sort(cmp=lambda x,y: cmp(x.issued, y.issued)): a stable sort.
SortByIssued(l) ==
    IF l = <<>> THEN <<>>
    ELSE InsertByIssued(SortByIssued(Upto(l, Len(l) - 1)), l[Len(l)])

---------------------------------------------------------------------------
(* The inputs of the calls. *)

\* 'a://b/p', an ordinary server URL.
server_url == <<"a", ":", "/", "/", "b", "/", "p">>

\* 'a-b-<digest of a://b/p>://c': a URL whose scheme spells the start of
\* the key of server_url.
prefix_server_url == <<"a", "-", "b", "-">> \o safe64(server_url) \o SchemeSep \o <<"c">>

\* 'nonce://b'
nonce_scheme_url == <<"n", "o", "n", "c", "e">> \o SchemeSep \o <<"b">>

\* 'a:b', with no '://' (the tests' bad_server_url)
bad_server_url == <<"a", ":", "b">>

AssocURLs == {server_url, prefix_server_url, bad_server_url}

NonceURLs == {server_url, <<>>, bad_server_url}

Handles == {<<"x">>, <<"y">>}

\* The associations the callers hold: two handles, the handle x with two
\* secrets, issued at 0, 1 and 2 and living for one or two seconds.
Associations ==
    {[handle |-> <<"x">>, secret |-> <<"s">>, issued |-> 1, lifetime |-> 1],
     [handle |-> <<"x">>, secret |-> <<"t">>, issued |-> 0, lifetime |-> 2],
     [handle |-> <<"y">>, secret |-> <<"s">>, issued |-> 2, lifetime |-> 1],
     [handle |-> <<"y">>, secret |-> <<"t">>, issued |-> 1, lifetime |-> 2]}

Salts == {<<"s">>}

Stamps == 0..MaxStamp

Skews == 0..MaxSkew

Callers == 1..NumCallers

\* The values the key space can hold, and what deserialize makes of each
\* (worked out once per value).
StoredTexts == {serialize(a) : a \in Associations} \cup {Str(n) : n \in Stamps} \cup {None}

DeserializesTable == [text \in StoredTexts |-> DeserializesText(text)]

deserializeTable ==
    [text \in StoredTexts |->
        IF DeserializesText(text) THEN deserializeText(text) ELSE NoAssociation]

Deserializes(text) == DeserializesTable[text]

deserialize(text) == deserializeTable[text]

\* The keys of the calls' arguments, likewise worked out once.
AssociationKeyTable ==
    [url \in {server_url, prefix_server_url, nonce_scheme_url},
     handle \in Handles \cup {None, <<>>} |-> getAssociationFilename(url, handle)]

AssociationKey(url, handle) == AssociationKeyTable[url, handle]

NonceKeyTable ==
    [url \in {server_url, <<>>}, timestamp \in Stamps, salt \in Salts |->
        NonceKey(url, timestamp, salt)]

anonceOf(url, timestamp, salt) == NonceKeyTable[url, timestamp, salt]

\* Who wrote a value.
ByAssociation(url, handle) == [kind |-> "association", url |-> url, id |-> handle, ts |-> 0]

ByNonce(url, timestamp, salt) == [kind |-> "nonce", url |-> url, id |-> salt, ts |-> timestamp]

---------------------------------------------------------------------------
(* RedisStore's methods: what a call made at time t on key space s returns *)
(* (out: "None", "True", "False", "Association", "Count", or the exception *)
(* raised), the key space it leaves, and the Redis commands it sent.       *)

\* issued_offset + association.lifetime, with issued_offset = now - issued
seconds_from_now(t, association) == (t - association.issued) + association.lifetime

\* storeAssociation parsing the URL as useNonce does, with an empty scheme
\* for a URL without '://', instead of raising.
storeAssociationLenient(s, t, url, association) ==
    LET key_name == IF BadServerURL(url)
                    THEN key_prefix \o Dash \o Dash \o filenameEscape(url) \o Dash
                             \o safe64(url) \o Dash \o safe64(association.handle)
                    ELSE AssociationKey(url, association.handle)
        written  == redis_set(s, key_name, serialize(association),
                              ByAssociation(url, association.handle))
    IN  [store |-> redis_expire(written, key_name, seconds_from_now(t, association), t),
         out   |-> "None",
         cmds  |-> {"SET", "EXPIRE"}]

storeAssociation(s, t, url, association) ==
    IF BadServerURL(url)
    THEN [store |-> s, out |-> "ValueError", cmds |-> {}]
    ELSE LET key_name == AssociationKey(url, association.handle)
             written  == redis_set(s, key_name, serialize(association),
                                   ByAssociation(url, association.handle))
         IN  [store |-> redis_expire(written, key_name,
                                     seconds_from_now(t, association), t),
              out   |-> "None",
              cmds  |-> {"SET", "EXPIRE"}]

\* The tail of getAssociation without a handle: deserialize every value
\* fetched, sort by issued, return the last.
MostRecent(values) ==
    IF \E i \in 1..Len(values) : ~Deserializes(values[i])
    THEN [out |-> "ValueError", ret |-> NoAssociation, cmds |-> {"KEYS", "MGET"}]
    ELSE LET associations == SortByIssued([i \in 1..Len(values) |-> deserialize(values[i])])
         IN  [out  |-> "Association",
              ret  |-> associations[Len(associations)],
              cmds |-> {"KEYS", "MGET"}]

\* Every outcome getAssociation can have; more than one when KEYS may list
\* the keys in more than one order.
getAssociation(s, url, handle) ==
    IF BadServerURL(url)
    THEN {[out |-> "ValueError", ret |-> NoAssociation, cmds |-> {}]}
    ELSE IF handle = None
    THEN LET key_name == AssociationKey(url, <<>>)
             assocs   == redis_keys(s, key_name)
         IN  IF assocs = {}
             THEN {[out |-> "None", ret |-> NoAssociation, cmds |-> {"KEYS"}]}
             ELSE {MostRecent(redis_mget(s, o)) : o \in Orders(assocs)}
    ELSE LET key_name      == AssociationKey(url, handle)
             association_s == redis_get(s, key_name)
         IN  IF Truthy(association_s)
             THEN {[out  |-> IF Deserializes(association_s) THEN "Association" ELSE "ValueError",
                    ret  |-> IF Deserializes(association_s) THEN deserialize(association_s)
                             ELSE NoAssociation,
                    cmds |-> {"GET"}]}
             ELSE {[out |-> "None", ret |-> NoAssociation, cmds |-> {"GET"}]}

\* removeAssociation deleting every key that starts with the key of the
\* server URL, whatever the handle.
removeAssociationByPrefix(s, url, handle) ==
    IF BadServerURL(url)
    THEN [store |-> s, out |-> "ValueError", cmds |-> {}]
    ELSE LET doomed == redis_keys(s, AssociationKey(url, <<>>))
         IN  [store |-> [k \in DOMAIN s \ doomed |-> s[k]],
              out   |-> IF doomed # {} THEN "True" ELSE "False",
              cmds  |-> {"KEYS", "DELETE"}]

removeAssociation(s, url, handle) ==
    IF BadServerURL(url)
    THEN [store |-> s, out |-> "ValueError", cmds |-> {}]
    ELSE LET key_name == AssociationKey(url, handle)
         IN  [store |-> redis_delete(s, key_name),
              out   |-> IF key_name \in DOMAIN s THEN "True" ELSE "False",
              cmds  |-> {"DELETE"}]

\* The skew check without abs(): only a timestamp behind the clock fails it.
SkewRejectsPastOnly(timestamp, t, skew) == (t - timestamp) > skew

\* abs(timestamp - time.time()) > nonce.SKEW
SkewRejects(timestamp, t, skew) == Abs(timestamp - t) > skew

\* curr_offset + nonce.SKEW, with curr_offset = time.time() - timestamp
NonceSeconds(timestamp, t, skew) == (t - timestamp) + skew

useNonce(s, t, skew, url, timestamp, salt) ==
    IF SkewRejects(timestamp, t, skew)
    THEN [store |-> s, out |-> "False", cmds |-> {}]
    ELSE IF NonceURLRaises(url)
    THEN [store |-> s, out |-> "ValueError", cmds |-> {}]
    ELSE LET anonce  == anonceOf(url, timestamp, salt)
             exists  == redis_get(s, anonce)
             swapped == redis_getset(s, anonce, Str(timestamp), ByNonce(url, timestamp, salt))
         IN  IF Truthy(exists)
             THEN [store |-> swapped, out |-> "False", cmds |-> {"GETSET"}]
             ELSE [store |-> redis_expire(swapped, anonce,
                                          NonceSeconds(timestamp, t, skew), t),
                   out   |-> "True",
                   cmds  |-> {"GETSET", "EXPIRE"}]

RECURSIVE Sweep(_, _, _, _, _, _)
\* The loop of cleanupNonces over the keys KEYS listed, in their order: it
\* stops where int() of a value raises.
Sweep(s, keys, t, skew, expired, cmds) ==
    IF keys = <<>>
    THEN [store |-> s, out |-> "Count", n |-> expired, cmds |-> cmds]
    ELSE LET value == redis_get(s, keys[1])
         IN  IF ~IntParses(value)
             THEN [store |-> s, out |-> "ValueError", n |-> expired,
                   cmds |-> cmds \cup {"GET"}]
             ELSE IF SkewRejects(IntOf(value), t, skew)
             THEN Sweep(redis_delete(s, keys[1]), Tail(keys), t, skew, expired + 1,
                        cmds \cup {"GET", "DELETE"})
             ELSE Sweep(s, Tail(keys), t, skew, expired, cmds \cup {"GET"})

\* Every outcome cleanupNonces can have, one per order of the listed keys.
\* The loop treats each key by itself, so the order of the keys shows in the
\* outcome only when int() raises at one of them: when every value parses,
\* one order stands for all.
cleanupNonces(s, t, skew) ==
    LET keys == redis_keys(s, key_prefix \o NonceMarker)
    IN  IF \A k \in keys : IntParses(redis_get(s, k))
        THEN {Sweep(s, OneOrder(keys), t, skew, 0, {"KEYS"})}
        ELSE {Sweep(s, o, t, skew, 0, {"KEYS"}) : o \in Orders(keys)}

---------------------------------------------------------------------------
(* The state machine.  In AssocSpec, NonceSpec and Spec one caller makes   *)
(* one call after another and every call runs to its return; in ConcSpec   *)
(* the callers' Redis commands interleave.                                 *)

\* The record of a call: its arguments (url; id, the handle or the salt; ts,
\* the timestamp; arg, the association) and its outcome (out; ret, the
\* association returned; n, the count returned; cmds, the commands sent).
Call(op, url, id, ts, arg, out, ret, n, cmds) ==
    [op |-> op, url |-> url, id |-> id, ts |-> ts, arg |-> arg,
     out |-> out, ret |-> ret, n |-> n, cmds |-> cmds]

NoCall == Call("none", <<>>, <<>>, 0, NoAssociation, "None", NoAssociation, 0, {})

IdleFrame == [url |-> <<>>, ts |-> 0, salt |-> <<>>, at |-> 0, out |-> "None"]

Init ==
    /\ now = 0
    /\ SKEW = MaxSkew
    /\ store = EmptyStore
    /\ last = NoCall
    /\ pc = [p \in Callers |-> "idle"]
    /\ frame = [p \in Callers |-> IdleFrame]

\* A second passes; Redis drops the keys whose deadline has come.
Tick ==
    /\ now < MaxTime
    /\ now' = now + 1
    /\ store' = Unexpired(store, now + 1)
    /\ UNCHANGED <<SKEW, last, pc, frame>>

\* nonceModule.SKEW = k, as the tests do.
SetSkew ==
    \E k \in Skews :
        /\ k # SKEW
        /\ SKEW' = k
        /\ UNCHANGED <<now, store, last, pc, frame>>

StoreAssociationAt(url, association) ==
    LET r == storeAssociation(store, now, url, association)
    IN  /\ store' = r.store
        /\ last' = Call("storeAssociation", url, association.handle, 0, association,
                        r.out, NoAssociation, 0, r.cmds)
        /\ UNCHANGED <<now, SKEW, pc, frame>>

StoreAssociation == \E url \in AssocURLs, a \in Associations : StoreAssociationAt(url, a)

GetAssociation ==
    \E url \in AssocURLs, handle \in Handles \cup {None, <<>>} :
        \E r \in getAssociation(store, url, handle) :
            /\ last' = Call("getAssociation", url, handle, 0, NoAssociation,
                            r.out, r.ret, 0, r.cmds)
            /\ UNCHANGED <<now, SKEW, store, pc, frame>>

RemoveAssociation ==
    \E url \in AssocURLs, handle \in Handles :
        LET r == removeAssociation(store, url, handle)
        IN  /\ store' = r.store
            /\ last' = Call("removeAssociation", url, handle, 0, NoAssociation,
                            r.out, NoAssociation, 0, r.cmds)
            /\ UNCHANGED <<now, SKEW, pc, frame>>

UseNonceAt(url, timestamp, salt) ==
    LET r == useNonce(store, now, SKEW, url, timestamp, salt)
    IN  /\ store' = r.store
        /\ last' = Call("useNonce", url, salt, timestamp, NoAssociation,
                        r.out, NoAssociation, 0, r.cmds)
        /\ UNCHANGED <<now, SKEW, pc, frame>>

UseNonce ==
    \E url \in NonceURLs, timestamp \in Stamps, salt \in Salts :
        UseNonceAt(url, timestamp, salt)

\* useNonce for the nonces of server_url.
UseServerNonce ==
    \E timestamp \in Stamps, salt \in Salts : UseNonceAt(server_url, timestamp, salt)

CleanupNonces ==
    \E r \in cleanupNonces(store, now, SKEW) :
        /\ store' = r.store
        /\ last' = Call("cleanupNonces", <<>>, <<>>, 0, NoAssociation,
                        r.out, NoAssociation, r.n, r.cmds)
        /\ UNCHANGED <<now, SKEW, pc, frame>>

\* storeAssociation for a server URL whose scheme is 'nonce'.
StoreNonceSchemeAssociation ==
    \E a \in {x \in Associations : x.handle = <<"x">>} :
        StoreAssociationAt(nonce_scheme_url, a)

\* The association store alone.
AssocNext == Tick \/ StoreAssociation \/ GetAssociation \/ RemoveAssociation

AssocSpec == Init /\ [][AssocNext]_vars

\* The nonce guard alone.
NonceNext == Tick \/ SetSkew \/ UseNonce \/ CleanupNonces

NonceSpec == Init /\ [][NonceNext]_vars

(* Concurrent callers of useNonce: the GETSET and the EXPIRE of a call are  *)
(* two commands, and other callers' commands and the clock run in between. *)

\* Caller p enters useNonce and runs up to its GETSET.
UseNonceClaim(p) ==
    \E url \in {server_url}, timestamp \in Stamps, salt \in Salts :
        LET anonce == anonceOf(url, timestamp, salt)
            exists == redis_get(store, anonce)
            f      == [url |-> url, ts |-> timestamp, salt |-> salt, at |-> now, out |-> "None"]
        IN  /\ pc[p] = "idle"
            /\ IF SkewRejects(timestamp, now, SKEW)
               THEN /\ store' = store
                    /\ pc' = [pc EXCEPT ![p] = "done"]
                    /\ frame' = [frame EXCEPT ![p] = [f EXCEPT !.out = "False"]]
               ELSE /\ store' = redis_getset(store, anonce, Str(timestamp),
                                             ByNonce(url, timestamp, salt))
                    /\ pc' = [pc EXCEPT ![p] = IF Truthy(exists) THEN "done" ELSE "expire"]
                    /\ frame' = [frame EXCEPT ![p] =
                                    [f EXCEPT !.out = IF Truthy(exists) THEN "False" ELSE "None"]]
            /\ UNCHANGED <<now, SKEW, last>>

\* Caller p, whose GETSET found no value, sends its EXPIRE and returns True.
UseNonceExpire(p) ==
    /\ pc[p] = "expire"
    /\ store' = redis_expire(store, anonceOf(frame[p].url, frame[p].ts, frame[p].salt),
                             NonceSeconds(frame[p].ts, now, SKEW), now)
    /\ pc' = [pc EXCEPT ![p] = "done"]
    /\ frame' = [frame EXCEPT ![p].out = "True"]
    /\ UNCHANGED <<now, SKEW, last>>

\* Caller p has its result and is free for another call.
CallerReturns(p) ==
    /\ pc[p] = "done"
    /\ pc' = [pc EXCEPT ![p] = "idle"]
    /\ frame' = [frame EXCEPT ![p] = IdleFrame]
    /\ UNCHANGED <<now, SKEW, store, last>>

ConcNext ==
    \/ Tick
    \/ SetSkew
    \/ \E p \in Callers : UseNonceClaim(p)
    \/ \E p \in Callers : UseNonceExpire(p)
    \/ \E p \in Callers : CallerReturns(p)

ConcSpec == Init /\ [][ConcNext]_vars

\* Nonces and associations in one key space.
Next ==
    \/ Tick
    \/ SetSkew
    \/ StoreNonceSchemeAssociation
    \/ UseServerNonce
    \/ CleanupNonces

Spec == Init /\ [][Next]_vars

---------------------------------------------------------------------------
(* What the properties read. *)

\* A step in which the one caller of AssocSpec, NonceSpec and Spec made a
\* call: last' is that call.
CallStep == now' = now /\ SKEW' = SKEW /\ pc' = pc /\ frame' = frame

\* Whether key space s holds the record of a nonce triple, of a
\* (server_url, handle) pair.
HasNonce(s, url, timestamp, salt) ==
    \E k \in DOMAIN s : s[k].by = ByNonce(url, timestamp, salt)

HasAssociation(s, url, handle) ==
    \E k \in DOMAIN s : s[k].by = ByAssociation(url, handle)

\* The associations key space s holds for a server URL.
StoredFor(s, url) ==
    {deserialize(s[k].val) :
        k \in {x \in DOMAIN s : s[x].by.kind = "association" /\ s[x].by.url = url}}

NonceRecords(s) == {k \in DOMAIN s : s[k].by.kind = "nonce"}

GoodAssocURLs == {url \in AssocURLs : Find(url, <<":", "/", "/">>) # -1}

---------------------------------------------------------------------------
(* C1.  Nonce single-use.  A useNonce call for a triple within SKEW of the  *)
(* clock, with a server_url that is empty or holds '://', returns True      *)
(* when the key space holds no record of the triple (the first call, or the *)
(* first after the record was removed) and False when it holds one; after   *)
(* a False the record is still there, and after a True it is there unless   *)
(* its time-to-live, (now - timestamp) + SKEW, was already used up.         *)
C1_NonceSingleUse ==
    [][(/\ CallStep
        /\ last'.op = "useNonce"
        /\ last'.url \in {server_url, <<>>}
        /\ Abs(last'.ts - now) <= SKEW)
       => /\ last'.out = IF HasNonce(store, last'.url, last'.ts, last'.id)
                         THEN "False" ELSE "True"
          /\ last'.out = "False" => HasNonce(store', last'.url, last'.ts, last'.id)
          /\ last'.out = "True" =>
                \/ HasNonce(store', last'.url, last'.ts, last'.id)
                \/ (now - last'.ts) + SKEW <= 0]_vars

\* A replay of a consumed nonce of the empty server_url was rejected.
C1_Witness ==
    /\ last.op = "useNonce"
    /\ last.url = <<>>
    /\ last.out = "False"
    /\ last.cmds = {"GETSET"}
    /\ HasNonce(store, last.url, last.ts, last.id)

(* C2.  Concurrent useNonce calls.  Of the callers that entered useNonce    *)
(* in the same second with the same triple, at most one returns True (SKEW  *)
(* being more than 0).                                                      *)
C2_OneWinner ==
    \A p, q \in Callers :
        (/\ p # q
         /\ SKEW > 0
         /\ frame[p].out = "True"
         /\ frame[q].out = "True"
         /\ frame[p].at = frame[q].at
         /\ frame[p].url = frame[q].url
         /\ frame[p].salt = frame[q].salt)
        => frame[p].ts # frame[q].ts

(* C3.  An association is retrievable only while now < issued + lifetime:   *)
(* whatever getAssociation returns, with or without a handle, has not       *)
(* expired.                                                                 *)
C3_OnlyUnexpiredRetrievable ==
    \A url \in GoodAssocURLs, handle \in Handles \cup {None} :
        \A r \in getAssociation(store, url, handle) :
            r.out = "Association" => now < Expiry(r.ret)

(* C4.  Round trip.  After storeAssociation of an association that has not  *)
(* expired, getAssociation by its handle returns its handle and secret, and *)
(* the key space holds exactly one record for the handle.                   *)
C4_RoundTrip ==
    [][(/\ CallStep
        /\ last'.op = "storeAssociation"
        /\ last'.url \in GoodAssocURLs
        /\ now < Expiry(last'.arg))
       => /\ \A r \in getAssociation(store', last'.url, last'.arg.handle) :
                /\ r.out = "Association"
                /\ r.ret.handle = last'.arg.handle
                /\ r.ret.secret = last'.arg.secret
          /\ Cardinality({k \in DOMAIN store' :
                store'[k].by = ByAssociation(last'.url, last'.arg.handle)}) = 1]_vars

(* C5.  Most recent wins.  getAssociation without a handle returns one of   *)
(* the associations stored for the server URL, none of them issued later,   *)
(* and returns None exactly when none is stored for it.                     *)
C5_MostRecentWins ==
    \A url \in GoodAssocURLs :
        \A r \in getAssociation(store, url, None) :
            IF StoredFor(store, url) = {}
            THEN r.out = "None"
            ELSE /\ r.out = "Association"
                 /\ r.ret \in StoredFor(store, url)
                 /\ \A a \in StoredFor(store, url) : a.issued <= r.ret.issued

(* C6.  Removal.  removeAssociation returns True exactly when the key space *)
(* held the record of the (server_url, handle) pair, the record is gone     *)
(* afterwards (a second call returns False), and every other record is as   *)
(* it was.                                                                  *)
C6_RemoveExact ==
    [][(/\ CallStep
        /\ last'.op = "removeAssociation"
        /\ last'.url \in GoodAssocURLs)
       => /\ last'.out = IF HasAssociation(store, last'.url, last'.id)
                         THEN "True" ELSE "False"
          /\ ~HasAssociation(store', last'.url, last'.id)
          /\ removeAssociation(store', last'.url, last'.id).out = "False"
          /\ DOMAIN store' \subseteq DOMAIN store
          /\ \A k \in DOMAIN store :
                store[k].by # ByAssociation(last'.url, last'.id)
                    => k \in DOMAIN store' /\ store'[k] = store[k]]_vars

\* A record was removed and another record of the same server URL is left.
C6_Witness ==
    /\ last.op = "removeAssociation"
    /\ last.out = "True"
    /\ \E k \in DOMAIN store : store[k].by.url = last.url

(* C7.  A server_url without '://' makes storeAssociation and               *)
(* getAssociation raise ValueError with no command sent to Redis: the key   *)
(* space is as it was.                                                      *)
C7_BadURLRaisesFirst ==
    [][(/\ CallStep
        /\ last'.op \in {"storeAssociation", "getAssociation"}
        /\ Find(last'.url, <<":", "/", "/">>) = -1)
       => /\ last'.out = "ValueError"
          /\ last'.cmds = {}
          /\ store' = store]_vars

\* storeAssociation raised for the bad URL in a key space that holds records.
C7_Witness ==
    /\ last.op = "storeAssociation"
    /\ last.url = bad_server_url
    /\ last.out = "ValueError"
    /\ store # EmptyStore

(* C8.  Skew boundary.  A useNonce call whose timestamp is more than SKEW   *)
(* from the clock returns False and sends no command: the key space is as   *)
(* it was, whether or not it holds a record of the triple.                  *)
C8_SkewRejectsUntouched ==
    [][(/\ CallStep
        /\ last'.op = "useNonce"
        /\ Abs(last'.ts - now) > SKEW)
       => /\ last'.out = "False"
          /\ last'.cmds = {}
          /\ store' = store]_vars

\* A call outside the skew was rejected while the record of its triple exists.
C8_Witness ==
    /\ last.op = "useNonce"
    /\ last.out = "False"
    /\ last.cmds = {}
    /\ Abs(last.ts - now) > SKEW
    /\ HasNonce(store, last.url, last.ts, last.id)

(* C9.  cleanupNonces, when some nonce record is stale (its timestamp is    *)
(* more than the current SKEW from the clock), removes exactly the stale    *)
(* nonce records and returns their number; the records within SKEW keep     *)
(* their value and expiry and still reject reuse; a removed triple is       *)
(* accepted again once it is within SKEW.                                   *)
C9_CleanupExact ==
    [][LET stale == {k \in NonceRecords(store) : Abs(store[k].by.ts - now) > SKEW}
       IN  (CallStep /\ last'.op = "cleanupNonces" /\ stale # {})
           => /\ last'.out = "Count"
              /\ last'.n = Cardinality(stale)
              /\ DOMAIN store' = DOMAIN store \ stale
              /\ \A k \in DOMAIN store' : store'[k] = store[k]
              /\ \A k \in NonceRecords(store) \ stale :
                    useNonce(store', now, SKEW, store[k].by.url, store[k].by.ts,
                             store[k].by.id).out = "False"
              /\ \A k \in stale : \A skew \in Skews :
                    Abs(store[k].by.ts - now) <= skew
                        => useNonce(store', now, skew, store[k].by.url, store[k].by.ts,
                                    store[k].by.id).out = "True"]_vars

(* C10.  Nonce lifecycle.  A consumed nonce's record is removed by its      *)
(* expiry: every nonce record in the key space has a deadline, also after   *)
(* rejected replays of its triple.                                          *)
C10_NonceRecordsExpire ==
    \A k \in NonceRecords(store) : store[k].exp # {}

---------------------------------------------------------------------------
(* The nonce guard with nonce.SKEW left as configured: SKEW is any of the  *)
(* values from the start and no call changes it, and no cleanupNonces      *)
(* runs.                                                                   *)

WindowInit ==
    /\ now = 0
    /\ SKEW \in Skews
    /\ store = EmptyStore
    /\ last = NoCall
    /\ pc = [p \in Callers |-> "idle"]
    /\ frame = [p \in Callers |-> IdleFrame]

WindowNext == Tick \/ UseNonce

WindowSpec == WindowInit /\ [][WindowNext]_vars

\* The associations key space s holds for a (server_url, handle) pair, for
\* the server URL when handle is None.
PairRecords(s, url, handle) ==
    {deserialize(s[k].val) :
        k \in {x \in DOMAIN s : /\ s[x].by.kind = "association"
                                /\ s[x].by.url = url
                                /\ handle # None => s[x].by.id = handle}}

\* What a caller sees of an outcome of getAssociation.
Seen(r) == [out |-> r.out, ret |-> r.ret]

---------------------------------------------------------------------------
(* The methods that send more than one Redis command, command by command:  *)
(* what other callers and the clock do between two commands of a call      *)
(* shows.  A caller's frame holds the call it is in (op), the keys its     *)
(* enumeration listed and has not yet treated (keys), the association it   *)
(* stores (arg), its count of expired nonces (n), its outcome, and, for a  *)
(* key it is about to delete, the second in which it read the value (at).  *)

MethodFrame ==
    [op |-> "none", keys |-> <<>>, arg |-> NoAssociation, n |-> 0,
     out |-> "None", ret |-> NoAssociation, at |-> 0]

MethodInit ==
    /\ now = 0
    /\ SKEW = MaxSkew
    /\ store = EmptyStore
    /\ last = NoCall
    /\ pc = [p \in Callers |-> "idle"]
    /\ frame = [p \in Callers |-> MethodFrame]

\* Caller p has its result and is free for another call.
MethodReturns(p) ==
    /\ pc[p] = "done"
    /\ pc' = [pc EXCEPT ![p] = "idle"]
    /\ frame' = [frame EXCEPT ![p] = MethodFrame]
    /\ UNCHANGED <<now, SKEW, store, last>>

\* storeAssociation(server_url, association) up to its set.
StoreAssociationSet(p) ==
    \E association \in Associations :
        /\ pc[p] = "idle"
        /\ store' = redis_set(store, AssociationKey(server_url, association.handle),
                              serialize(association),
                              ByAssociation(server_url, association.handle))
        /\ pc' = [pc EXCEPT ![p] = "expire"]
        /\ frame' = [frame EXCEPT ![p] =
                        [MethodFrame EXCEPT !.op = "storeAssociation", !.arg = association]]
        /\ UNCHANGED <<now, SKEW, last>>

\* The expire of storeAssociation, and its return.
StoreAssociationExpire(p) ==
    /\ pc[p] = "expire"
    /\ store' = redis_expire(store, AssociationKey(server_url, frame[p].arg.handle),
                             seconds_from_now(now, frame[p].arg), now)
    /\ pc' = [pc EXCEPT ![p] = "done"]
    /\ UNCHANGED <<now, SKEW, last, frame>>

\* getAssociation(server_url, None) up to its keys(): with no key listed it
\* returns None.
GetAssociationKeys(p) ==
    LET assocs == redis_keys(store, AssociationKey(server_url, <<>>))
    IN  /\ pc[p] = "idle"
        /\ IF assocs = {}
           THEN /\ pc' = [pc EXCEPT ![p] = "done"]
                /\ frame' = [frame EXCEPT ![p] =
                                [MethodFrame EXCEPT !.op = "getAssociation"]]
           ELSE \E o \in Orders(assocs) :
                    /\ pc' = [pc EXCEPT ![p] = "mget"]
                    /\ frame' = [frame EXCEPT ![p] =
                                    [MethodFrame EXCEPT !.op = "getAssociation", !.keys = o]]
        /\ UNCHANGED <<now, SKEW, store, last>>

\* The mget of the keys listed, the deserialize of each value fetched (of
\* None, for a key that is gone: it raises), the sort and the return.
GetAssociationFetch(p) ==
    LET values == redis_mget(store, frame[p].keys)
        r      == MostRecent(values)
    IN  /\ pc[p] = "mget"
        /\ pc' = [pc EXCEPT ![p] = "done"]
        /\ frame' = [frame EXCEPT ![p].keys = <<>>,
                                  ![p].out = IF \E i \in 1..Len(values) : values[i] = None
                                             THEN "AttributeError" ELSE r.out,
                                  ![p].ret = r.ret]
        /\ UNCHANGED <<now, SKEW, store, last>>

\* Associations of server_url, stored, removed and enumerated by callers
\* whose commands interleave.
ScanNext ==
    \/ Tick
    \/ RemoveAssociation
    \/ \E p \in Callers : StoreAssociationSet(p)
    \/ \E p \in Callers : StoreAssociationExpire(p)
    \/ \E p \in Callers : GetAssociationKeys(p)
    \/ \E p \in Callers : GetAssociationFetch(p)
    \/ \E p \in Callers : MethodReturns(p)

ScanSpec == MethodInit /\ [][ScanNext]_vars

\* Where a caller of cleanupNonces goes with the keys it still has to treat.
SweepOn(keys) == IF keys = <<>> THEN "done" ELSE "get"

\* cleanupNonces up to its keys().
CleanupKeys(p) ==
    \E o \in Orders(redis_keys(store, key_prefix \o NonceMarker)) :
        /\ pc[p] = "idle"
        /\ pc' = [pc EXCEPT ![p] = SweepOn(o)]
        /\ frame' = [frame EXCEPT ![p] =
                        [MethodFrame EXCEPT !.op = "cleanupNonces", !.keys = o,
                                            !.out = "Count"]]
        /\ UNCHANGED <<now, SKEW, store, last>>

\* timestamp = int(self._conn.get(key)) for the next key listed, and the
\* skew test: int(None), for a key that is gone, raises TypeError.
CleanupGet(p) ==
    LET value == redis_get(store, frame[p].keys[1])
    IN  /\ pc[p] = "get"
        /\ IF value = None
           THEN /\ pc' = [pc EXCEPT ![p] = "done"]
                /\ frame' = [frame EXCEPT ![p].out = "TypeError"]
           ELSE IF ~IntParses(value)
           THEN /\ pc' = [pc EXCEPT ![p] = "done"]
                /\ frame' = [frame EXCEPT ![p].out = "ValueError"]
           ELSE IF SkewRejects(IntOf(value), now, SKEW)
           THEN /\ pc' = [pc EXCEPT ![p] = "delete"]
                /\ frame' = [frame EXCEPT ![p].at = now]
           ELSE /\ pc' = [pc EXCEPT ![p] = SweepOn(Tail(frame[p].keys))]
                /\ frame' = [frame EXCEPT ![p].keys = Tail(frame[p].keys)]
        /\ UNCHANGED <<now, SKEW, store, last>>

\* self._conn.delete(key); expired += 1
CleanupDelete(p) ==
    /\ pc[p] = "delete"
    /\ store' = redis_delete(store, frame[p].keys[1])
    /\ pc' = [pc EXCEPT ![p] = SweepOn(Tail(frame[p].keys))]
    /\ frame' = [frame EXCEPT ![p].keys = Tail(frame[p].keys),
                              ![p].n = frame[p].n + 1,
                              ![p].at = 0]
    /\ UNCHANGED <<now, SKEW, last>>

\* Nonces of server_url, used by one call at a time and swept by callers
\* whose commands interleave.
SweepNext ==
    \/ Tick
    \/ SetSkew
    \/ UseServerNonce
    \/ \E p \in Callers : CleanupKeys(p)
    \/ \E p \in Callers : CleanupGet(p)
    \/ \E p \in Callers : CleanupDelete(p)
    \/ \E p \in Callers : MethodReturns(p)

SweepSpec == MethodInit /\ [][SweepNext]_vars

---------------------------------------------------------------------------
(* C11.  Association keys and nonce keys never collide: no association's    *)
(* key matches the pattern key_prefix + '-nonce-*' that cleanupNonces       *)
(* enumerates, so cleanupNonces never reads an association's value and      *)
(* never fails at parsing one.                                              *)
C11_KeySpacesApart ==
    /\ \A k \in DOMAIN store :
          store[k].by.kind = "association" => k \notin redis_keys(store, key_prefix \o NonceMarker)
    /\ \A r \in cleanupNonces(store, now, SKEW) : r.out = "Count"

(* C12.  Key construction separates records: different (server_url, handle) *)
(* pairs have different keys, getAssociation for a pair (for a server URL,  *)
(* without a handle) returns only an association stored for that pair (that *)
(* server URL), and removeAssociation removes only the pair's record.       *)
C12_KeysSeparateRecords ==
    /\ \A u1 \in GoodAssocURLs, u2 \in GoodAssocURLs :
          \A h1 \in Handles \cup {None}, h2 \in Handles \cup {None} :
              <<u1, h1>> # <<u2, h2>> => AssociationKey(u1, h1) # AssociationKey(u2, h2)
    /\ \A url \in GoodAssocURLs, handle \in Handles \cup {None} :
          \A r \in getAssociation(store, url, handle) :
              r.out = "Association" => r.ret \in PairRecords(store, url, handle)
    /\ \A url \in GoodAssocURLs, handle \in Handles :
          \A k \in DOMAIN store \ DOMAIN removeAssociation(store, url, handle).store :
              store[k].by = ByAssociation(url, handle)

(* C13.  Replay prevention covers the whole validity window (SKEW constant  *)
(* and more than 0, no cleanupNonces): a useNonce that returned True leaves *)
(* the record of its triple in the key space, and the record's expiry       *)
(* removes it only at a time at which its timestamp no longer passes the    *)
(* skew check.                                                              *)
C13_WindowCovered ==
    [][/\ (CallStep /\ last'.op = "useNonce" /\ last'.out = "True" /\ SKEW > 0)
            => HasNonce(store', last'.url, last'.ts, last'.id)
       /\ (now' = now + 1 /\ SKEW > 0)
            => \A k \in NonceRecords(store) \ DOMAIN store' :
                    Abs(store[k].by.ts - now') > SKEW]_vars

(* C14.  storeAssociation writes the record with the time-to-live           *)
(* remaining = (issued - now) + lifetime: the record's deadline is          *)
(* issued + lifetime (and with nothing remaining no record is left).        *)
C14_RemainingTTL ==
    [][(/\ CallStep
        /\ last'.op = "storeAssociation"
        /\ last'.url \in GoodAssocURLs)
       => LET remaining == (last'.arg.issued - now) + last'.arg.lifetime
              key_name  == AssociationKey(last'.url, last'.arg.handle)
          IN  IF remaining > 0
              THEN /\ key_name \in DOMAIN store'
                   /\ store'[key_name].exp = {now + remaining}
              ELSE key_name \notin DOMAIN store']_vars

(* C17.  getAssociation treats an empty handle like an omitted one:         *)
(* getAssociation(server_url, '') has the outcomes of                       *)
(* getAssociation(server_url, None).                                        *)
C17_EmptyHandleAsNone ==
    \A url \in GoodAssocURLs :
        {Seen(r) : r \in getAssociation(store, url, <<>>)}
            = {Seen(r) : r \in getAssociation(store, url, None)}

(* C19.  With SKEW 0 useNonce stores and keeps nothing: after a useNonce    *)
(* call every nonce record in the key space was there before the call, and  *)
(* the call neither removed nor extended its expiry; and what a             *)
(* cleanupNonces run with SKEW 0 leaves is left to expire.                  *)
C19_ZeroSkewKeepsNothing ==
    [][/\ (CallStep /\ last'.op = "useNonce" /\ SKEW = 0)
            => \A k \in NonceRecords(store') :
                    /\ k \in DOMAIN store
                    /\ store[k].exp # {}
                        => /\ store'[k].exp # {}
                           /\ \A d \in store[k].exp, e \in store'[k].exp : e <= d
       /\ (CallStep /\ last'.op = "cleanupNonces" /\ SKEW = 0)
            => \A k \in NonceRecords(store') : store'[k].exp # {}]_vars

(* C15.  getAssociation without a handle tolerates an enumeration that is   *)
(* no snapshot: whatever happens to the keys listed before the fetch, the   *)
(* call returns an association or None and raises nothing.                  *)
C15_ScanTolerant ==
    \A p \in Callers :
        (pc[p] = "done" /\ frame[p].op = "getAssociation")
            => frame[p].out \in {"Association", "None"}

(* C16.  cleanupNonces tolerates an enumeration that is no snapshot:        *)
(* whatever happens to the keys listed before their values are read, the    *)
(* call returns a count and raises nothing.                                 *)
C16_SweepTolerant ==
    \A p \in Callers :
        (pc[p] = "done" /\ frame[p].op = "cleanupNonces") => frame[p].out = "Count"

(* C18.  No association record ever exists without an expiry, in every      *)
(* state, those between the set and the expire of storeAssociation          *)
(* included.                                                                *)
C18_AssociationsHaveExpiry ==
    \A k \in DOMAIN store : store[k].by.kind = "association" => store[k].exp # {}

(* C20.  The count of cleanupNonces is the number of deletions it performed: *)
(* whenever a caller of cleanupNonces counts a record as expired, in the    *)
(* second in which it read the record (so that the record has not expired   *)
(* since), its delete removed a record from the key space: no other caller  *)
(* had removed, and counted, that record.                                   *)
C20_CountsDeletions ==
    [][\A p \in Callers :
          (pc[p] = "delete" /\ frame[p].at = now /\ frame'[p].n = frame[p].n + 1)
              => Cardinality(DOMAIN store') = Cardinality(DOMAIN store) - 1]_vars

=============================================================================
